---- MODULE Spec2Model ----
(***************************************************************************)
(* Model of config.py, the parameter module of the unpaid-labour valuation *)
(* analysis: the module namespace built at import, validate_parameters,    *)
(* create_output_directories (down to the os.mkdir calls of Path.mkdir),   *)
(* the conversion and formatting helpers, and the __main__ block.          *)
(*                                                                         *)
(* Number encoding.  Rates and fractions (0.072, 0.20, 0.35 ...) are kept  *)
(* in thousandths: 0.106 is 106.  Rupee amounts, minutes, years and        *)
(* iteration counts are plain integers.  The amount handed to              *)
(* format_currency is in tenths of a rupee, so that rounding to zero       *)
(* decimals is something the model computes.                               *)
(***************************************************************************)
EXTENDS Integers, Sequences, FiniteSets, TLC

VARIABLES
    ns,      \* the module namespace: the names config.py binds at import
    fs,      \* the directories that exist under PROJECT_ROOT
    denied,  \* the paths whose creation the operating system refuses
    pc,      \* pc[p]: where process p is
    stack,   \* stack[p]: the Path.mkdir frames of p's current call
    idx,     \* idx[p]: position of p's for-loop in `directories`
    tried,   \* tried[p]: the paths p's current call handed to os.mkdir
    ret,     \* ret[p]: what p's last completed call returned or raised
    log,     \* log[p]: p's completed calls, each with the filesystem it left
    out,     \* standard output, line by line
    status,  \* <<exit status of the interpreter>>, <<>> while it runs
    limit    \* the number of calls each importing program makes at most

vars == <<ns, fs, denied, pc, stack, idx, tried, ret, log, out, status, limit>>

None == "None"

(***************************************************************************)
(* Bounds of the model.                                                    *)
(***************************************************************************)
NumCallers == 2     \* concurrent callers of create_output_directories
MaxCalls == 2       \* calls a program makes, one after the other
RaceCalls == 1      \* calls each of the concurrent callers makes

\* Process 0 is the interpreter running config.py as a script; the others
\* are programs that import it.
Main == 0
Callers == 1 .. NumCallers

(***************************************************************************)
(* PROJECT CONFIGURATION                                                   *)
(***************************************************************************)
PROJECT_NAME == "Economic Valuation of Unpaid Labor"
AUTHOR == "Ashish Ranjan"
VERSION == "1.0"
RANDOM_SEED == 20250901

PROJECT_ROOT == "."
DATA_DIR == "data"
OUTPUTS_DIR == "outputs"
FIGURES_DIR == "outputs/figures"
TABLES_DIR == "outputs/tables"
LOGS_DIR == "outputs/logs"
PROCESSED_DIR == "data/processed"

\* Path.parent, on the paths above.
Parent(path) ==
    CASE path = PROCESSED_DIR -> DATA_DIR
      [] path \in {FIGURES_DIR, TABLES_DIR, LOGS_DIR} -> OUTPUTS_DIR
      [] OTHER -> PROJECT_ROOT

\* Every directory create_output_directories can bring into existence.
AllDirs == {DATA_DIR, PROCESSED_DIR, OUTPUTS_DIR, FIGURES_DIR, TABLES_DIR, LOGS_DIR}

(***************************************************************************)
(* DATA PARAMETERS                                                         *)
(***************************************************************************)
Activities ==
    {"food_preparation", "serving_food", "cleanup_meals", "cleaning_dwelling",
     "care_textiles", "gardening", "shopping", "childcare", "teaching_children",
     "adult_care", "other_domestic"}

Genders == {"female", "male"}

\* Faulty variant: other_domestic carries the minutes of shopping.
TimeAllocBug ==
    [a \in Activities |->
        CASE a = "food_preparation"  -> [female |-> 98, male |-> 12]
          [] a = "serving_food"      -> [female |-> 28, male |-> 3]
          [] a = "cleanup_meals"     -> [female |-> 34, male |-> 2]
          [] a = "cleaning_dwelling" -> [female |-> 66, male |-> 8]
          [] a = "care_textiles"     -> [female |-> 30, male |-> 3]
          [] a = "gardening"         -> [female |-> 8,  male |-> 4]
          [] a = "shopping"          -> [female |-> 30, male |-> 12]
          [] a = "childcare"         -> [female |-> 62, male |-> 18]
          [] a = "teaching_children" -> [female |-> 15, male |-> 4]
          [] a = "adult_care"        -> [female |-> 35, male |-> 14]
          [] OTHER                   -> [female |-> 30, male |-> 12]]

TIME_ALLOCATION ==
    [a \in Activities |->
        CASE a = "food_preparation"  -> [female |-> 98, male |-> 12]
          [] a = "serving_food"      -> [female |-> 28, male |-> 3]
          [] a = "cleanup_meals"     -> [female |-> 34, male |-> 2]
          [] a = "cleaning_dwelling" -> [female |-> 66, male |-> 8]
          [] a = "care_textiles"     -> [female |-> 30, male |-> 3]
          [] a = "gardening"         -> [female |-> 8,  male |-> 4]
          [] a = "shopping"          -> [female |-> 30, male |-> 12]
          [] a = "childcare"         -> [female |-> 62, male |-> 18]
          [] a = "teaching_children" -> [female |-> 15, male |-> 4]
          [] a = "adult_care"        -> [female |-> 35, male |-> 14]
          [] OTHER                   -> [female |-> 35, male |-> 14]]

TOTAL_UNPAID_MINUTES == [female |-> 441, male |-> 94]

EMOTIONAL_LABOR_PREMIUM == 200

DAYS_PER_YEAR == 365
MINUTES_PER_HOUR == 60

(***************************************************************************)
(* FINANCIAL PARAMETERS                                                    *)
(***************************************************************************)
RISK_FREE_RATE == 72
INFLATION_PREMIUM == 24
HOUSEHOLD_RISK_PREMIUM == 10

\* Faulty variant: the household risk premium is left out.
DiscountRateBug == RISK_FREE_RATE + INFLATION_PREMIUM

DISCOUNT_RATE == RISK_FREE_RATE + INFLATION_PREMIUM + HOUSEHOLD_RISK_PREMIUM

WAGE_GROWTH_ASI == 62
WAGE_GROWTH_EPFO == 58
CONSERVATIVE_ADJUSTMENT == -2

GROWTH_RATE == (WAGE_GROWTH_ASI + WAGE_GROWTH_EPFO) \div 2 + CONSERVATIVE_ADJUSTMENT

TIME_HORIZON_YEARS == 55

(***************************************************************************)
(* SCENARIO PARAMETERS                                                     *)
(***************************************************************************)
FEMALE_ANNUAL_SALARY == 1345000
MALE_SALARY_PREMIUM == 350

\* int(FEMALE_ANNUAL_SALARY * (1 + MALE_SALARY_PREMIUM)): int() drops the
\* fraction of a positive product.
MALE_ANNUAL_SALARY == (FEMALE_ANNUAL_SALARY * (1000 + MALE_SALARY_PREMIUM)) \div 1000

LIFECYCLE_COST_LUMP == 5000000

(***************************************************************************)
(* MONTE CARLO SIMULATION PARAMETERS                                       *)
(***************************************************************************)
MC_ITERATIONS == 10000

\* Faulty variant: the bounds of lifecycle_cost are exchanged.
McParamsBug ==
    [discount_rate    |-> [mean |-> DISCOUNT_RATE, std |-> 15, min |-> 50, max |-> 150],
     growth_rate      |-> [mean |-> GROWTH_RATE, std |-> 12, min |-> 20, max |-> 100],
     hours_multiplier |-> [mean |-> 1000, std |-> 100, min |-> 700, max |-> 1300],
     wage_multiplier  |-> [mean |-> 1000, std |-> 100, min |-> 800, max |-> 1300],
     lifecycle_cost   |-> [mean |-> LIFECYCLE_COST_LUMP,
                           std  |-> (15 * LIFECYCLE_COST_LUMP) \div 100,
                           min  |-> (150 * LIFECYCLE_COST_LUMP) \div 100,
                           max  |-> (50 * LIFECYCLE_COST_LUMP) \div 100]]

\* The first four distributions are in thousandths, lifecycle_cost in rupees
\* (its factors 0.15, 0.5 and 1.5 are applied as 15, 50 and 150 hundredths).
MC_PARAMS ==
    [discount_rate    |-> [mean |-> DISCOUNT_RATE, std |-> 15, min |-> 50, max |-> 150],
     growth_rate      |-> [mean |-> GROWTH_RATE, std |-> 12, min |-> 20, max |-> 100],
     hours_multiplier |-> [mean |-> 1000, std |-> 100, min |-> 700, max |-> 1300],
     wage_multiplier  |-> [mean |-> 1000, std |-> 100, min |-> 800, max |-> 1300],
     lifecycle_cost   |-> [mean |-> LIFECYCLE_COST_LUMP,
                           std  |-> (15 * LIFECYCLE_COST_LUMP) \div 100,
                           min  |-> (50 * LIFECYCLE_COST_LUMP) \div 100,
                           max  |-> (150 * LIFECYCLE_COST_LUMP) \div 100]]

McNames == {"discount_rate", "growth_rate", "hours_multiplier", "wage_multiplier",
            "lifecycle_cost"}

(***************************************************************************)
(* The namespace the import of config.py leaves behind.                    *)
(***************************************************************************)
Loaded ==
    [TIME_ALLOCATION         |-> TIME_ALLOCATION,
     TOTAL_UNPAID_MINUTES    |-> TOTAL_UNPAID_MINUTES,
     EMOTIONAL_LABOR_PREMIUM |-> EMOTIONAL_LABOR_PREMIUM,
     DISCOUNT_RATE           |-> DISCOUNT_RATE,
     GROWTH_RATE             |-> GROWTH_RATE,
     TIME_HORIZON_YEARS      |-> TIME_HORIZON_YEARS,
     MALE_ANNUAL_SALARY      |-> MALE_ANNUAL_SALARY,
     MC_ITERATIONS           |-> MC_ITERATIONS,
     MC_PARAMS               |-> MC_PARAMS]

(***************************************************************************)
(* HELPER FUNCTIONS                                                        *)
(***************************************************************************)
directories == <<PROCESSED_DIR, OUTPUTS_DIR, FIGURES_DIR, TABLES_DIR, LOGS_DIR>>

RECURSIVE Gcd(_, _)
Gcd(a, b) == IF b = 0 THEN a ELSE Gcd(b, a % b)

\* A Python float that is a quotient of integers, in lowest terms.
Ratio(num, den) ==
    LET g == Gcd(IF num < 0 THEN -num ELSE num, den)
    IN  [num |-> num \div g, den |-> den \div g]

\* get_annual_hours(minutes_per_day), minutes_per_day an integer.
get_annual_hours(minutes_per_day) ==
    Ratio(minutes_per_day * DAYS_PER_YEAR, MINUTES_PER_HOUR)

\* apply_emotional_labor_adjustment(hours), hours an integer; the premium
\* is read from the namespace n at the time of the call.
apply_emotional_labor_adjustment(n, hours) ==
    Ratio(hours * (1000 + n.EMOTIONAL_LABOR_PREMIUM), 1000)

Abs(i) == IF i < 0 THEN -i ELSE i

DigitChar(d) == <<"0", "1", "2", "3", "4", "5", "6", "7", "8", "9">>[d + 1]

RECURSIVE Digits(_)
Digits(i) == IF i < 10 THEN <<DigitChar(i)>>
             ELSE Digits(i \div 10) \o <<DigitChar(i % 10)>>

\* The ',' option of the format mini-language: groups of three digits.
RECURSIVE Grouped(_)
Grouped(i) ==
    IF i < 1000 THEN Digits(i)
    ELSE Grouped(i \div 1000)
         \o <<",", DigitChar((i % 1000) \div 100), DigitChar((i % 100) \div 10),
              DigitChar(i % 10)>>

\* '.0f': the nearest integer, a tie (an exact half) going to the even one.
RoundHalfEven(tenths) ==
    LET q == tenths \div 10
        r == tenths % 10
    IN  IF r < 5 THEN q
        ELSE IF r > 5 THEN q + 1
        ELSE IF q % 2 = 0 THEN q ELSE q + 1

\* The first character of CURRENCY_FORMAT, the rupee sign U+20B9.
RupeeSign == "(U+20B9)"

\* format_currency(amount) = CURRENCY_FORMAT.format(amount), the format being
\* the rupee sign and {:,.0f}; amount is in tenths of a rupee and the result
\* is the sequence of its characters.  A negative amount keeps its sign even
\* when it rounds to zero.
format_currency(tenths) ==
    <<RupeeSign>> \o (IF tenths < 0 THEN <<"-">> ELSE <<>>)
            \o Grouped(RoundHalfEven(Abs(tenths)))

\* format_percentage(rate) = "{:.1%}".format(rate), rate in thousandths: the
\* rate times 100 with one decimal, then '%'.
format_percentage(rate) ==
    (IF rate < 0 THEN <<"-">> ELSE <<>>)
    \o Digits(Abs(rate) \div 10) \o <<".", DigitChar(Abs(rate) % 10), "%">>

(***************************************************************************)
(* VALIDATION FUNCTIONS                                                    *)
(***************************************************************************)
NumAsserts == 5

\* Faulty variant: every strict bound lax and every lax bound strict.
AssertHoldsOffByOne(n, i) ==
    CASE i = 1 -> 0 < n.DISCOUNT_RATE /\ n.DISCOUNT_RATE <= 200
      [] i = 2 -> 0 <= n.GROWTH_RATE /\ n.GROWTH_RATE <= 150
      [] i = 3 -> n.TIME_HORIZON_YEARS >= 0
      [] i = 4 -> n.MC_ITERATIONS > 1000
      [] OTHER -> 0 <= n.EMOTIONAL_LABOR_PREMIUM /\ n.EMOTIONAL_LABOR_PREMIUM < 500

\* The condition of the i-th assert statement of validate_parameters.
AssertHolds(n, i) ==
    CASE i = 1 -> 0 < n.DISCOUNT_RATE /\ n.DISCOUNT_RATE < 200
      [] i = 2 -> 0 <= n.GROWTH_RATE /\ n.GROWTH_RATE < 150
      [] i = 3 -> n.TIME_HORIZON_YEARS > 0
      [] i = 4 -> n.MC_ITERATIONS >= 1000
      [] OTHER -> 0 <= n.EMOTIONAL_LABOR_PREMIUM /\ n.EMOTIONAL_LABOR_PREMIUM <= 500

\* The message of the i-th assert statement: its text, and the values its
\* f-string interpolates (only the first two interpolate anything).
AssertMessage(n, i) ==
    CASE i = 1 -> [text |-> "Discount rate {DISCOUNT_RATE} out of range",
                   values |-> <<n.DISCOUNT_RATE>>]
      [] i = 2 -> [text |-> "Growth rate {GROWTH_RATE} out of range",
                   values |-> <<n.GROWTH_RATE>>]
      [] i = 3 -> [text |-> "Time horizon must be positive", values |-> <<>>]
      [] i = 4 -> [text |-> "Monte Carlo iterations too low", values |-> <<>>]
      [] OTHER -> [text |-> "Emotional labor premium out of range", values |-> <<>>]

\* Exceptions are records; NoException is Python's "nothing was raised".
NoException == [type |-> None]

AssertionError(msg) == [type |-> "AssertionError", text |-> msg.text, values |-> msg.values]

\* The OSError subclass os.mkdir raises when it may not create `path`.
PermissionError(path) == [type |-> "PermissionError", path |-> path]

FileNotFoundError(path) == [type |-> "FileNotFoundError", path |-> path]

FileExistsError(path) == [type |-> "FileExistsError", path |-> path]

\* The assert statements of validate_parameters from the i-th on: which were
\* evaluated, and the exception the first failing one raises.
RECURSIVE RunAsserts(_, _, _, _)
RunAsserts(n, i, evaluated, raised) ==
    IF i > NumAsserts THEN [evaluated |-> evaluated, raised |-> raised]
    ELSE IF AssertHolds(n, i) THEN RunAsserts(n, i + 1, Append(evaluated, i), raised)
    ELSE [evaluated |-> Append(evaluated, i),
          raised |-> AssertionError(AssertMessage(n, i))]

\* The line starts with the check mark U+2713, written here as "(v)".
ValidatedLine == [text |-> "(v) All parameters validated successfully", values |-> <<>>]

\* validate_parameters(): what it evaluates, raises and prints.
validate_parameters(n) ==
    LET r == RunAsserts(n, 1, <<>>, NoException)
    IN  [evaluated |-> r.evaluated,
         raised    |-> r.raised,
         printed   |-> IF r.raised = NoException THEN <<ValidatedLine>> ELSE <<>>]

(***************************************************************************)
(* Path.mkdir(parents=True, exist_ok=True), one os.mkdir call per step.    *)
(***************************************************************************)
Exists(path) == path = PROJECT_ROOT \/ path \in fs

\* What the os.mkdir(path) system call does in the current filesystem.
OsMkdir(path) ==
    IF Exists(path) THEN "EEXIST"
    ELSE IF ~Exists(Parent(path)) THEN "ENOENT"
    ELSE IF path \in denied THEN "EACCES"
    ELSE "created"

\* The frame of the Path.mkdir call at the top of p's stack.
Top(p) == stack[p][Len(stack[p])]

Frame(path, parents, exist_ok) == [path |-> path, parents |-> parents, exist_ok |-> exist_ok]

\* What a call gave its caller: a value, or an exception.  For
\* validate_parameters, `evaluated` lists the assert statements that ran.
Result(op, value, raised, evaluated) ==
    [op |-> op, value |-> value, raised |-> raised, evaluated |-> evaluated]

\* A completed call: the directories it created and the filesystem it left.
Entry(op, raised, made, fsys) == [op |-> op, raised |-> raised, made |-> made, fs |-> fsys]

\* The directories the os.mkdir calls listed in t created.
Made(t) == {t[i].path : i \in {j \in DOMAIN t : t[j].outcome = "created"}}

\* p is at an os.mkdir call, whose path and outcome go on record.
Attempting(p) ==
    /\ pc[p] = "mkdir"
    /\ tried' = [tried EXCEPT ![p] =
                    Append(@, [path |-> Top(p).path, outcome |-> OsMkdir(Top(p).path)])]

\* create_output_directories ends in p, returning (exc = NoException) or
\* raising exc, with the filesystem fsys.  In the __main__ block the next
\* statement is the summary, and an exception ends the interpreter with
\* status 1; a library caller gets the result.
CallEnds(p, exc, fsys) ==
    /\ stack' = [stack EXCEPT ![p] = <<>>]
    /\ idx' = [idx EXCEPT ![p] = 0]
    /\ ret' = [ret EXCEPT ![p] = Result("create_output_directories", None, exc, <<>>)]
    /\ log' = [log EXCEPT ![p] =
                  Append(@, Entry("create_output_directories", exc, Made(tried'[p]), fsys))]
    /\ IF p = Main
       THEN /\ pc' = [pc EXCEPT ![p] = IF exc = NoException THEN "summary" ELSE "exited"]
            /\ status' = IF exc = NoException THEN status ELSE <<1>>
       ELSE /\ pc' = [pc EXCEPT ![p] = "idle"]
            /\ status' = status

\* The top frame of p is done: back in its caller, which is the frame below
\* (about to retry) or the for-loop, which goes on to the next directory or
\* falls off the end of the list.
FrameReturns(p, fsys) ==
    IF Len(stack[p]) > 1
    THEN /\ stack' = [stack EXCEPT ![p] = SubSeq(@, 1, Len(@) - 1)]
         /\ UNCHANGED <<pc, idx, ret, log, status>>
    ELSE IF idx[p] < Len(directories)
    THEN /\ idx' = [idx EXCEPT ![p] = @ + 1]
         /\ stack' = [stack EXCEPT ![p] = <<Frame(directories[idx[p] + 1], TRUE, TRUE)>>]
         /\ UNCHANGED <<pc, ret, log, status>>
    ELSE CallEnds(p, NoException, fsys)

\* create_output_directories() is entered: the for-loop takes its first item.
Begin(p) ==
    /\ \/ pc[p] = "idle" /\ Len(log[p]) < limit
       \/ pc[p] = "create"
    /\ pc' = [pc EXCEPT ![p] = "mkdir"]
    /\ idx' = [idx EXCEPT ![p] = 1]
    /\ stack' = [stack EXCEPT ![p] = <<Frame(directories[1], TRUE, TRUE)>>]
    /\ tried' = [tried EXCEPT ![p] = <<>>]
    /\ UNCHANGED <<ns, fs, denied, ret, log, out, status, limit>>

\* os.mkdir creates the directory.
MkdirCreates(p) ==
    /\ Attempting(p)
    /\ OsMkdir(Top(p).path) = "created"
    /\ fs' = fs \cup {Top(p).path}
    /\ FrameReturns(p, fs')
    /\ UNCHANGED <<ns, denied, out, limit>>

\* Faulty variant: mkdir without exist_ok.
MkdirExistsRaises(p) ==
    /\ Attempting(p)
    /\ OsMkdir(Top(p).path) = "EEXIST"
    /\ CallEnds(p, FileExistsError(Top(p).path), fs)
    /\ UNCHANGED <<ns, fs, denied, out, limit>>

\* os.mkdir raises FileExistsError and the path is a directory: the except
\* OSError clause lets it pass when exist_ok is set and re-raises otherwise.
\* (Directories are never removed, so is_dir() after the failed os.mkdir
\* finds what os.mkdir found.)
MkdirExists(p) ==
    /\ Attempting(p)
    /\ OsMkdir(Top(p).path) = "EEXIST"
    /\ IF Top(p).exist_ok
       THEN FrameReturns(p, fs)
       ELSE CallEnds(p, FileExistsError(Top(p).path), fs)
    /\ UNCHANGED <<ns, fs, denied, out, limit>>

\* Faulty variant: the retry after making the parent drops exist_ok.
MkdirNoParentStrictRetry(p) ==
    /\ Attempting(p)
    /\ OsMkdir(Top(p).path) = "ENOENT"
    /\ IF Top(p).parents /\ Parent(Top(p).path) # Top(p).path
       THEN /\ stack' = [stack EXCEPT ![p] =
                            SubSeq(@, 1, Len(@) - 1)
                            \o <<Frame(Top(p).path, FALSE, FALSE),
                                 Frame(Parent(Top(p).path), TRUE, TRUE)>>]
            /\ UNCHANGED <<pc, idx, ret, log, status>>
       ELSE CallEnds(p, FileNotFoundError(Top(p).path), fs)
    /\ UNCHANGED <<ns, fs, denied, out, limit>>

\* os.mkdir raises FileNotFoundError: with parents set, the parent is made
\* by a recursive call (parents=True, exist_ok=True) and this path is tried
\* again (parents=False, exist_ok as given); without parents the exception
\* goes to the caller.
MkdirNoParent(p) ==
    /\ Attempting(p)
    /\ OsMkdir(Top(p).path) = "ENOENT"
    /\ IF Top(p).parents /\ Parent(Top(p).path) # Top(p).path
       THEN /\ stack' = [stack EXCEPT ![p] =
                            SubSeq(@, 1, Len(@) - 1)
                            \o <<Frame(Top(p).path, FALSE, Top(p).exist_ok),
                                 Frame(Parent(Top(p).path), TRUE, TRUE)>>]
            /\ UNCHANGED <<pc, idx, ret, log, status>>
       ELSE CallEnds(p, FileNotFoundError(Top(p).path), fs)
    /\ UNCHANGED <<ns, fs, denied, out, limit>>

\* Faulty variant: the OSError is swallowed and the loop goes on.
MkdirRefusedSkips(p) ==
    /\ Attempting(p)
    /\ OsMkdir(Top(p).path) = "EACCES"
    /\ FrameReturns(p, fs)
    /\ UNCHANGED <<ns, fs, denied, out, limit>>

\* os.mkdir raises PermissionError and the path is no directory: the except
\* OSError clause re-raises, and nothing in create_output_directories
\* catches it.
MkdirRefused(p) ==
    /\ Attempting(p)
    /\ OsMkdir(Top(p).path) = "EACCES"
    /\ CallEnds(p, PermissionError(Top(p).path), fs)
    /\ UNCHANGED <<ns, fs, denied, out, limit>>

(***************************************************************************)
(* Calls from a program that imported the module.  Each of these runs to   *)
(* completion in one step: none of them touches anything shared.           *)
(***************************************************************************)
MinutesInputs == {0, 94, 441}
HoursInputs == {0, 100}
AmountInputs == {-4, 5, 15, 12345670}
RateInputs == {-2, 0, 106}

Returns(p, op, value, raised, evaluated) ==
    /\ pc[p] = "idle"
    /\ Len(log[p]) < limit
    /\ ret' = [ret EXCEPT ![p] = Result(op, value, raised, evaluated)]
    /\ log' = [log EXCEPT ![p] = Append(@, Entry(op, raised, {}, fs))]

\* Faulty variant: a failed validation puts the defaults back.
CallValidateResets(p) ==
    /\ Returns(p, "validate_parameters", None, validate_parameters(ns).raised,
               validate_parameters(ns).evaluated)
    /\ out' = out \o validate_parameters(ns).printed
    /\ ns' = IF validate_parameters(ns).raised = NoException THEN ns ELSE Loaded
    /\ UNCHANGED <<fs, denied, pc, stack, idx, tried, status, limit>>

\* validate_parameters() called by an importer, who gets the AssertionError.
CallValidate(p) ==
    /\ Returns(p, "validate_parameters", None, validate_parameters(ns).raised,
               validate_parameters(ns).evaluated)
    /\ out' = out \o validate_parameters(ns).printed
    /\ UNCHANGED <<ns, fs, denied, pc, stack, idx, tried, status, limit>>

CallGetAnnualHours(p) ==
    /\ \E m \in MinutesInputs :
          Returns(p, "get_annual_hours", get_annual_hours(m), NoException, <<>>)
    /\ UNCHANGED <<ns, fs, denied, pc, stack, idx, tried, out, status, limit>>

CallApplyEmotionalLaborAdjustment(p) ==
    /\ \E h \in HoursInputs :
          Returns(p, "apply_emotional_labor_adjustment",
                  apply_emotional_labor_adjustment(ns, h), NoException, <<>>)
    /\ UNCHANGED <<ns, fs, denied, pc, stack, idx, tried, out, status, limit>>

CallFormatCurrency(p) ==
    /\ \E a \in AmountInputs :
          Returns(p, "format_currency", format_currency(a), NoException, <<>>)
    /\ UNCHANGED <<ns, fs, denied, pc, stack, idx, tried, out, status, limit>>

CallFormatPercentage(p) ==
    /\ \E r \in RateInputs :
          Returns(p, "format_percentage", format_percentage(r), NoException, <<>>)
    /\ UNCHANGED <<ns, fs, denied, pc, stack, idx, tried, out, status, limit>>

(***************************************************************************)
(* The __main__ block.                                                     *)
(***************************************************************************)
Line(text, values) == [text |-> text, values |-> values]

\* The eight print statements that follow create_output_directories().
Summary(n) ==
    << Line("Configuration loaded for {PROJECT_NAME} v{VERSION}",
            <<<<PROJECT_NAME>>, <<VERSION>>>>),
       Line("Author: {AUTHOR}", <<<<AUTHOR>>>>),
       Line("Random seed: {RANDOM_SEED}", <<Digits(RANDOM_SEED)>>),
       Line("Key parameters:", <<>>),
       Line("  Discount rate: {format_percentage(DISCOUNT_RATE)}",
            <<format_percentage(n.DISCOUNT_RATE)>>),
       Line("  Growth rate: {format_percentage(GROWTH_RATE)}",
            <<format_percentage(n.GROWTH_RATE)>>),
       Line("  Time horizon: {TIME_HORIZON_YEARS} years", <<Digits(n.TIME_HORIZON_YEARS)>>),
       Line("  Monte Carlo iterations: {MC_ITERATIONS:,}", <<Grouped(n.MC_ITERATIONS)>>) >>

\* Faulty variant: the script goes on after a failed validation.
MainValidateContinues ==
    /\ pc[Main] = "validate"
    /\ LET r == validate_parameters(ns)
       IN  /\ out' = out \o r.printed
           /\ ret' = [ret EXCEPT ![Main] = Result("validate_parameters", None, r.raised, r.evaluated)]
           /\ pc' = [pc EXCEPT ![Main] = "create"]
           /\ status' = status
    /\ UNCHANGED <<ns, fs, denied, stack, idx, tried, log, limit>>

\* validate_parameters(): an AssertionError is caught by nobody, so the
\* interpreter prints the traceback and exits with status 1.
MainValidate ==
    /\ pc[Main] = "validate"
    /\ LET r == validate_parameters(ns)
       IN  /\ out' = out \o r.printed
           /\ ret' = [ret EXCEPT ![Main] = Result("validate_parameters", None, r.raised, r.evaluated)]
           /\ IF r.raised = NoException
              THEN /\ pc' = [pc EXCEPT ![Main] = "create"]
                   /\ status' = status
              ELSE /\ pc' = [pc EXCEPT ![Main] = "exited"]
                   /\ status' = <<1>>
    /\ UNCHANGED <<ns, fs, denied, stack, idx, tried, log, limit>>

\* The summary, after which the script ends and the interpreter exits with 0.
MainSummary ==
    /\ pc[Main] = "summary"
    /\ out' = out \o Summary(ns)
    /\ pc' = [pc EXCEPT ![Main] = "exited"]
    /\ status' = <<0>>
    /\ UNCHANGED <<ns, fs, denied, stack, idx, tried, ret, log, limit>>

(***************************************************************************)
(* Initial states.                                                         *)
(***************************************************************************)
\* A filesystem holds no directory without its parent.
FileSystems ==
    {d \in SUBSET AllDirs : \A x \in d : Parent(x) = PROJECT_ROOT \/ Parent(x) \in d}

\* At most one path is refused.
Refusals == {{}} \cup {{d} : d \in AllDirs}

\* Values a test gives the five validated names, around each bound.
DiscountRates == {0, 1, 106, 199, 200}
GrowthRates == {-1, 0, 58, 149, 150, 160}
TimeHorizons == {0, 1, 55}
Iterations == {999, 1000, 10000}
Premiums == {-1, 0, 200, 500, 501}

Patched(d, g, t, m, e) ==
    [Loaded EXCEPT !.DISCOUNT_RATE = d, !.GROWTH_RATE = g, !.TIME_HORIZON_YEARS = t,
                   !.MC_ITERATIONS = m, !.EMOTIONAL_LABOR_PREMIUM = e]

Namespaces ==
    {Patched(d, g, t, m, e) : d \in DiscountRates, g \in GrowthRates, t \in TimeHorizons,
                              m \in Iterations, e \in Premiums}

\* The namespace as imported, and with one name set out of range.
FewNamespaces ==
    {Loaded,
     [Loaded EXCEPT !.DISCOUNT_RATE = 200],
     [Loaded EXCEPT !.GROWTH_RATE = 160],
     [Loaded EXCEPT !.TIME_HORIZON_YEARS = 0],
     [Loaded EXCEPT !.MC_ITERATIONS = 999],
     [Loaded EXCEPT !.EMOTIONAL_LABOR_PREMIUM = 501]}

InitProcs(procs, start, calls) ==
    /\ limit = calls
    /\ pc = [p \in procs |-> start]
    /\ stack = [p \in procs |-> <<>>]
    /\ idx = [p \in procs |-> 0]
    /\ tried = [p \in procs |-> <<>>]
    /\ ret = [p \in procs |-> Result(None, None, NoException, <<>>)]
    /\ log = [p \in procs |-> <<>>]
    /\ out = <<>>
    /\ status = <<>>

\* One program that imported config.py and calls into it, one call after
\* the other.
Init ==
    /\ ns \in FewNamespaces
    /\ fs \in FileSystems
    /\ denied \in Refusals
    /\ InitProcs({1}, "idle", MaxCalls)

Next ==
    \/ \E p \in DOMAIN pc : CallValidate(p)
    \/ \E p \in DOMAIN pc : CallGetAnnualHours(p)
    \/ \E p \in DOMAIN pc : CallApplyEmotionalLaborAdjustment(p)
    \/ \E p \in DOMAIN pc : CallFormatCurrency(p)
    \/ \E p \in DOMAIN pc : CallFormatPercentage(p)
    \/ \E p \in DOMAIN pc : Begin(p)
    \/ \E p \in DOMAIN pc : MkdirCreates(p)
    \/ \E p \in DOMAIN pc : MkdirExists(p)
    \/ \E p \in DOMAIN pc : MkdirNoParent(p)
    \/ \E p \in DOMAIN pc : MkdirRefused(p)

Spec == Init /\ [][Next]_vars

\* validate_parameters on every combination of the values above.
InitValidate ==
    /\ ns \in Namespaces
    /\ fs = {}
    /\ denied = {}
    /\ InitProcs({1}, "idle", MaxCalls)

NextValidate == \E p \in DOMAIN pc : CallValidate(p)

SpecValidate == InitValidate /\ [][NextValidate]_vars

\* Several programs calling create_output_directories at the same time on
\* one filesystem that refuses nothing.
InitRace ==
    /\ ns = Loaded
    /\ fs \in FileSystems
    /\ denied = {}
    /\ InitProcs(Callers, "idle", RaceCalls)

NextRace ==
    \/ \E p \in DOMAIN pc : Begin(p)
    \/ \E p \in DOMAIN pc : MkdirCreates(p)
    \/ \E p \in DOMAIN pc : MkdirExists(p)
    \/ \E p \in DOMAIN pc : MkdirNoParent(p)

SpecRace == InitRace /\ [][NextRace]_vars

\* python config.py
InitMain ==
    /\ ns \in FewNamespaces
    /\ fs \in FileSystems
    /\ denied \in Refusals
    /\ InitProcs({Main}, "validate", MaxCalls)

NextMain ==
    \/ MainValidate
    \/ Begin(Main)
    \/ MkdirCreates(Main)
    \/ MkdirExists(Main)
    \/ MkdirNoParent(Main)
    \/ MkdirRefused(Main)
    \/ MainSummary

SpecMain == InitMain /\ [][NextMain]_vars

(***************************************************************************)
(* Properties.                                                             *)
(***************************************************************************)
Range(f) == {f[i] : i \in DOMAIN f}

CreateOp == "create_output_directories"
ValidateOp == "validate_parameters"

\* The five range conditions, as the specification lists them.
InRange(n, i) ==
    CASE i = 1 -> n.DISCOUNT_RATE \in 1 .. 199
      [] i = 2 -> n.GROWTH_RATE \in 0 .. 149
      [] i = 3 -> n.TIME_HORIZON_YEARS >= 1
      [] i = 4 -> n.MC_ITERATIONS >= 1000
      [] OTHER -> n.EMOTIONAL_LABOR_PREMIUM \in 0 .. 500

\* The parameter each failure message speaks of.
Speaks(text) ==
    CASE text = "Discount rate {DISCOUNT_RATE} out of range" -> "discountRate"
      [] text = "Growth rate {GROWTH_RATE} out of range" -> "growthRate"
      [] text = "Time horizon must be positive" -> "timeHorizonYears"
      [] text = "Monte Carlo iterations too low" -> "mcIterations"
      [] text = "Emotional labor premium out of range" -> "emotionalLaborPremium"
      [] OTHER -> "nothing"

CheckNames ==
    <<"discountRate", "growthRate", "timeHorizonYears", "mcIterations",
      "emotionalLaborPremium">>

\* The value of the parameter of the i-th check.
Actual(n, i) ==
    CASE i = 1 -> n.DISCOUNT_RATE
      [] i = 2 -> n.GROWTH_RATE
      [] i = 3 -> n.TIME_HORIZON_YEARS
      [] i = 4 -> n.MC_ITERATIONS
      [] OTHER -> n.EMOTIONAL_LABOR_PREMIUM

Violated(n) == {i \in 1 .. 5 : ~InRange(n, i)}

FirstViolated(n) == CHOOSE i \in Violated(n) : \A j \in Violated(n) : i <= j

Validated(p) == ret[p].op = ValidateOp

Failed(p) == ret[p].raised # NoException

\* C1: validate_parameters succeeds exactly when all five range conditions
\* hold; otherwise it fails at the first violated check in the order
\* discountRate, growthRate, timeHorizonYears, mcIterations,
\* emotionalLaborPremium, has evaluated the checks up to that one and no
\* later one, and its message speaks of that check's parameter.  It succeeds
\* on the configuration as imported, and fails on the growth-rate check when
\* growthRate is 0.16 and discountRate is in range.
Thm_C1 ==
    \A p \in DOMAIN ret :
        Validated(p) =>
            /\ ~Failed(p) <=> Violated(ns) = {}
            /\ ~Failed(p) => ret[p].evaluated = <<1, 2, 3, 4, 5>>
            /\ Failed(p) =>
                  /\ ret[p].raised.type = "AssertionError"
                  /\ Speaks(ret[p].raised.text) = CheckNames[FirstViolated(ns)]
                  /\ ret[p].evaluated = [i \in 1 .. FirstViolated(ns) |-> i]
            /\ ns = Loaded => ~Failed(p)
            /\ (ns.GROWTH_RATE = 160 /\ InRange(ns, 1)) =>
                  Failed(p) /\ Speaks(ret[p].raised.text) = "growthRate"

\* growthRate set to 0.16 with later parameters out of range too: the
\* failure is the growth-rate one, after two checks.
Wit_C1 ==
    /\ Validated(1)
    /\ ns.GROWTH_RATE = 160 /\ ns.DISCOUNT_RATE = 106
    /\ ns.TIME_HORIZON_YEARS = 0 /\ ns.MC_ITERATIONS = 999
    /\ Failed(1)
    /\ Speaks(ret[1].raised.text) = "growthRate"
    /\ ret[1].evaluated = <<1, 2>>

\* C5: every failure of validate_parameters reports the name of the
\* offending parameter and its actual value.
Orig_C5 ==
    \A p \in DOMAIN ret :
        (Validated(p) /\ Failed(p)) =>
            /\ Speaks(ret[p].raised.text) = CheckNames[FirstViolated(ns)]
            /\ ret[p].raised.values = <<Actual(ns, FirstViolated(ns))>>

Last(q) == q[Len(q)]

RECURSIVE SumMinutes(_, _, _)
SumMinutes(table, gender, left) ==
    IF left = {} THEN 0
    ELSE LET a == CHOOSE x \in left : TRUE
         IN  table[a][gender] + SumMinutes(table, gender, left \ {a})

Orig_C9 ==
    \A g \in Genders :
        ns.TOTAL_UNPAID_MINUTES[g] # SumMinutes(ns.TIME_ALLOCATION, g, DOMAIN ns.TIME_ALLOCATION)

\* C9, amended: for each gender, TOTAL_UNPAID_MINUTES is the sum of that
\* gender's minutes over the eleven TIME_ALLOCATION entries (441 for female,
\* 94 for male).
Thm_C9 ==
    /\ Cardinality(DOMAIN ns.TIME_ALLOCATION) = 11
    /\ \A g \in Genders :
          ns.TOTAL_UNPAID_MINUTES[g]
              = SumMinutes(ns.TIME_ALLOCATION, g, DOMAIN ns.TIME_ALLOCATION)

\* The female total, converted by get_annual_hours, is the converted sum.
Wit_C9 ==
    /\ ret[1].op = "get_annual_hours"
    /\ ret[1].value = get_annual_hours(SumMinutes(ns.TIME_ALLOCATION, "female", Activities))
    /\ SumMinutes(ns.TIME_ALLOCATION, "female", Activities) = 441
    /\ SumMinutes(ns.TIME_ALLOCATION, "male", Activities) = 94

\* C10: the Monte Carlo specification has iterations >= 1000 and, for every
\* distribution (discount_rate, growth_rate, hours_multiplier,
\* wage_multiplier, lifecycle_cost), min <= mean <= max, the discount_rate
\* and growth_rate means being the derived discountRate and growthRate.
Thm_C10 ==
    /\ \A d \in McNames :
          /\ ns.MC_PARAMS[d].min <= ns.MC_PARAMS[d].mean
          /\ ns.MC_PARAMS[d].mean <= ns.MC_PARAMS[d].max
    /\ ns = Loaded =>
          /\ ns.MC_ITERATIONS >= 1000
          /\ ns.MC_PARAMS.discount_rate.mean = ns.DISCOUNT_RATE
          /\ ns.MC_PARAMS.growth_rate.mean = ns.GROWTH_RATE

\* The imported namespace, validated: its iteration count passed the check.
Wit_C10 ==
    /\ ns = Loaded
    /\ Validated(1) /\ ~Failed(1)
    /\ ns.MC_PARAMS.discount_rate = [mean |-> 106, std |-> 15, min |-> 50, max |-> 150]
    /\ ns.MC_PARAMS.lifecycle_cost.min = 2500000
    /\ ns.MC_PARAMS.lifecycle_cost.max = 7500000

\* C6: whatever calls are made to validate_parameters,
\* create_output_directories, get_annual_hours,
\* apply_emotional_labor_adjustment, format_currency and format_percentage,
\* and whether they succeed or fail, no name of the namespace changes its
\* value; the filesystem changes only in a step of
\* create_output_directories, and a call of validate_parameters (or of a
\* helper) leaves the filesystem as it is.
Thm_C6 ==
    [][ /\ ns' = ns
        /\ denied' = denied
        /\ fs' # fs => \E p \in DOMAIN pc : pc[p] = "mkdir" /\ tried'[p] # tried[p]
        /\ \A p \in DOMAIN log :
              (log'[p] # log[p] /\ Last(log'[p]).op # CreateOp) => fs' = fs ]_vars

\* A failed validation, then a successful create_output_directories that
\* made directories, with the out-of-range value still in the namespace.
Wit_C6 ==
    /\ Len(log[1]) = 2
    /\ log[1][1].op = ValidateOp /\ log[1][1].raised # NoException
    /\ log[1][2].op = CreateOp /\ log[1][2].raised = NoException
    /\ log[1][2].made = AllDirs
    /\ ns.GROWTH_RATE = 160

CreateCalled(p) == ret[p].op = CreateOp /\ pc[p] = "idle"

Attempts(p, outcome) == {i \in DOMAIN tried[p] : tried[p][i].outcome = outcome}

\* The position in `directories` of the entry the for-loop was at when
\* os.mkdir was called on path: the entry itself, or the one whose missing
\* parent path is.
LoopIndex(path) ==
    CHOOSE k \in DOMAIN directories :
        /\ path \in {directories[k], Parent(directories[k])}
        /\ \A j \in DOMAIN directories :
              path \in {directories[j], Parent(directories[j])} => k <= j

\* C7 as stated: a refused creation surfaces as an I/O error for the listed
\* directory that was being created, without a retry; the directories
\* earlier in the list stay, and the later ones are not attempted.
Orig_C7 ==
    \A p \in DOMAIN pc :
        (CreateCalled(p) /\ Attempts(p, "EACCES") # {}) =>
            /\ ret[p].raised.type = "PermissionError"
            /\ ret[p].raised.path = directories[LoopIndex(Last(tried[p]).path)]
            /\ Attempts(p, "EACCES") = {Len(tried[p])}

\* C7, amended: when the operating system refuses to create a directory,
\* create_output_directories raises the I/O error to its caller, naming the
\* path whose creation was refused: the listed directory, or its missing
\* parent (data, for data/processed).  The refused os.mkdir is the last one
\* of the call (no retry); the directories earlier in the list exist (no
\* rollback) and none later in the list was attempted.
Thm_C7 ==
    \A p \in DOMAIN pc :
        (CreateCalled(p) /\ Attempts(p, "EACCES") # {}) =>
            LET bad == Last(tried[p]).path
                k == LoopIndex(bad)
            IN  /\ ret[p].raised = PermissionError(bad)
                /\ bad \in denied /\ bad \notin fs
                /\ bad \in {directories[k], Parent(directories[k])}
                /\ Attempts(p, "EACCES") = {Len(tried[p])}
                /\ \A j \in 1 .. k - 1 : directories[j] \in fs
                /\ \A j \in k + 1 .. Len(directories) :
                      \A i \in DOMAIN tried[p] : tried[p][i].path # directories[j]
                /\ Last(log[p]).fs = fs
                /\ Last(log[p]).made \subseteq fs

\* outputs/tables is refused after the call has made data, data/processed,
\* outputs and outputs/figures: they stay, and outputs/logs is not tried.
Wit_C7 ==
    /\ CreateCalled(1)
    /\ ret[1].raised = PermissionError(TABLES_DIR)
    /\ Last(log[1]).made = {DATA_DIR, PROCESSED_DIR, OUTPUTS_DIR, FIGURES_DIR}
    /\ fs = {DATA_DIR, PROCESSED_DIR, OUTPUTS_DIR, FIGURES_DIR}
    /\ Len(tried[1]) = 6

\* p's first two calls were create_output_directories, twice in succession,
\* and the first of them found no directory under the project root (it made
\* every directory there is).
TwiceFromEmpty(p) ==
    /\ Len(log[p]) >= 2
    /\ log[p][1].op = CreateOp /\ log[p][2].op = CreateOp
    /\ log[p][1].raised = NoException
    /\ log[p][1].made = log[p][1].fs

\* C3 as stated: from a project root without subdirectories,
\* create_output_directories called twice in succession raises nothing the
\* second time, leaves the filesystem as the first call left it, and leaves
\* exactly five directories under the project root.
Orig_C3 ==
    \A p \in DOMAIN log :
        TwiceFromEmpty(p) =>
            /\ log[p][2].raised = NoException
            /\ log[p][2].fs = log[p][1].fs
            /\ Cardinality(log[p][2].fs) = 5

\* C3, amended: from a project root without subdirectories,
\* create_output_directories called twice in succession raises nothing the
\* second time, creates nothing the second time and leaves the filesystem as
\* the first call left it: the five listed directories and data, the parent
\* of data/processed, six directories in all.
Thm_C3 ==
    \A p \in DOMAIN log :
        TwiceFromEmpty(p) =>
            /\ log[p][2].raised = NoException
            /\ log[p][2].made = {}
            /\ log[p][2].fs = log[p][1].fs
            /\ log[p][2].fs = Range(directories) \cup {DATA_DIR}
            /\ Cardinality(log[p][2].fs) = 6

\* The second call has just returned: each of its five os.mkdir calls found
\* its directory there.
Wit_C3 ==
    /\ TwiceFromEmpty(1)
    /\ pc[1] = "idle"
    /\ Len(log[1]) = 2
    /\ log[1][1].made = AllDirs
    /\ Len(tried[1]) = 5
    /\ Attempts(1, "EEXIST") = 1 .. 5

\* C4: when two or more callers run create_output_directories concurrently
\* on a filesystem that refuses nothing, then under every interleaving of
\* their os.mkdir calls every call returns, none raises (FileExistsError
\* included), and every listed directory exists when a call has returned,
\* so also once all callers have finished.
Thm_C4 ==
    /\ \A p \in DOMAIN log :
          \A i \in DOMAIN log[p] :
              /\ log[p][i].raised = NoException
              /\ Range(directories) \subseteq log[p][i].fs
    /\ \A p \in DOMAIN pc :
          pc[p] = "mkdir" => ENABLED (MkdirCreates(p) \/ MkdirExists(p) \/ MkdirNoParent(p))
    /\ (\A p \in DOMAIN pc : pc[p] = "idle" /\ Len(log[p]) >= 1) =>
          Range(directories) \subseteq fs

\* The race on data/processed: caller 1 found no parent, and by the time it
\* came back from making the parent, caller 2 had made the directory; both
\* calls returned.
Wit_C4 ==
    /\ \A p \in DOMAIN pc : pc[p] = "idle" /\ Len(log[p]) = 1
    /\ \A p \in DOMAIN pc : log[p][1].raised = NoException
    /\ tried[1][1] = [path |-> PROCESSED_DIR, outcome |-> "ENOENT"]
    /\ tried[1][2] = [path |-> DATA_DIR, outcome |-> "EEXIST"]
    /\ tried[1][3] = [path |-> PROCESSED_DIR, outcome |-> "EEXIST"]
    /\ PROCESSED_DIR \in log[2][1].made

SummaryPrinted == \E i \in DOMAIN out : out[i].text = "Key parameters:"

\* C2: run as a program, config.py validates, then creates the directories,
\* then prints the summary.  A failed validation ends the process with a
\* non-zero status before any os.mkdir call and without the summary; a run
\* that prints the summary has all five listed directories in place.
Thm_C2 ==
    /\ (Validated(Main) /\ Failed(Main)) =>
          /\ pc[Main] = "exited" /\ status = <<1>>
          /\ tried[Main] = <<>> /\ log[Main] = <<>>
          /\ out = <<>>
    /\ pc[Main] = "validate" => tried[Main] = <<>> /\ out = <<>> /\ status = <<>>
    /\ pc[Main] \in {"create", "mkdir", "summary"} =>
          /\ out = <<ValidatedLine>>
          /\ Violated(ns) = {}
          /\ status = <<>>
    /\ SummaryPrinted =>
          /\ Range(directories) \subseteq fs
          /\ out = <<ValidatedLine>> \o Summary(ns)
          /\ Len(log[Main]) = 1 /\ log[Main][1].raised = NoException
          /\ pc[Main] = "exited" /\ status = <<0>>
    /\ status = <<0>> => SummaryPrinted
    /\ pc[Main] = "exited" <=> status # <<>>

\* A run to the end that had to make every directory.
Wit_C2 ==
    /\ SummaryPrinted
    /\ status = <<0>>
    /\ log[Main][1].made = AllDirs
    /\ Len(out) = 9

====
